---- MODULE Spec2Model ----
(***************************************************************************)
(* Model of mind_the_gaps (src/src/mind_the_gaps/gaps.py): Endpoint, the   *)
(* sweep-line _merge, the validating Gaps constructor, the four set        *)
(* operators and the membership test.                                      *)
(*                                                                         *)
(* Endpoint values are the even integers 2, 4, .., 2*NumValues; the odd    *)
(* integers around them stand for the values strictly between two          *)
(* endpoint values (and below the first / above the last one).             *)
(***************************************************************************)
EXTENDS Integers, Sequences, FiniteSets, TLC

VARIABLES a, b, op, pc, endpoints, i, j, inside_region, scanline,
          current_a, current_b, at_scanline, right_of_scanline, result,
          value, found, input, text, other, elem, heap

vars == <<a, b, op, pc, endpoints, i, j, inside_region, scanline,
          current_a, current_b, at_scanline, right_of_scanline, result,
          value, found, input, text, other, elem, heap>>

(* ------------------------------ bounds --------------------------------- *)

NumValues == 3

MaxIntervals == 2

Values == {2 * k : k \in 1..NumValues}

PosInf == 2 * NumValues + 2

NegInf == 2 - 2

Domain == (NegInf + 1)..(PosInf - 1)

Ops == {"or", "and", "xor", "sub"}

(* ----------------------------- Endpoint -------------------------------- *)

Boundary == {"(", ")", "[", "]"}

BoundaryOrderAllDistinct == [bd \in Boundary |->
                     CASE bd = ")" -> 0
                       [] bd = "[" -> 1
                       [] bd = "]" -> 2
                       [] bd = "(" -> 3]

BOUNDARY_ORDER == [bd \in Boundary |->
                     CASE bd = ")" -> 0
                       [] bd = "[" -> 1
                       [] bd = "]" -> 1
                       [] bd = "(" -> 2]

Endpoint(v, bd) == [value |-> v, boundary |-> bd]

None == [value |-> 0, boundary |-> "None"]

Unbound == "unbound"

is_closed(e) == e.boundary \in {"[", "]"}

is_open(e) == e.boundary \in {"(", ")"}

is_left(e) == e.boundary \in {"[", "("}

is_right(e) == e.boundary \in {")", "]"}

isEndpoint(e) == e.boundary \in Boundary

EndpointLt(e, f) ==
    IF e.value # f.value
    THEN e.value < f.value
    ELSE BOUNDARY_ORDER[e.boundary] < BOUNDARY_ORDER[f.boundary]

EndpointEqValueOnly(e, f) == e.value = f.value

EndpointEq(e, f) ==
    /\ e.value = f.value
    /\ BOUNDARY_ORDER[e.boundary] = BOUNDARY_ORDER[f.boundary]

\* functools.total_ordering derives > from < and ==.
EndpointGt(e, f) == ~EndpointLt(e, f) /\ ~EndpointEq(e, f)

(* ---------------------------- combinators ------------------------------ *)

sub(x, y) == x /\ ~y

ApplyOrAsXor(o, x, y) ==
    CASE o = "or"  -> (x # y)
      [] o = "and" -> (x /\ y)
      [] o = "xor" -> (x # y)
      [] o = "sub" -> sub(x, y)

Apply(o, x, y) ==
    CASE o = "or"  -> (x \/ y)
      [] o = "and" -> (x /\ y)
      [] o = "xor" -> (x # y)
      [] o = "sub" -> sub(x, y)

(* ------------------------------ _merge --------------------------------- *)

EndpointContainsIgnoreClosed(e, v) ==
    IF e = None THEN FALSE
    ELSE IF e.value = v THEN TRUE
    ELSE IF is_left(e) THEN v > e.value
    ELSE v < e.value

EndpointContains(e, v) ==
    IF e = None THEN FALSE
    ELSE IF e.value = v THEN is_closed(e)
    ELSE IF is_left(e) THEN v > e.value
    ELSE v < e.value

EndpointContainsRightStrictLeft(e, v) ==
    IF e = None THEN FALSE
    ELSE IF is_left(e) THEN v > e.value
    ELSE v < e.value

EndpointContainsRight(e, v) ==
    IF e = None THEN FALSE
    ELSE IF is_left(e) THEN ~(v < e.value)
    ELSE v < e.value

Min(x, y) == IF y < x THEN y ELSE x

BoolInt(p) == IF p THEN 1 ELSE 0

MergeStart ==
    [endpoints |-> <<>>, i |-> 0, j |-> 0, inside_region |-> FALSE,
     scanline |-> Unbound, current_a |-> None, current_b |-> None,
     at_scanline |-> Unbound, right_of_scanline |-> Unbound]

\* The cursor selection of one loop iteration (lines 130-143).
AdvanceTieToA(xs, ys, st) ==
    IF st.i >= Len(xs) THEN
        [current_a |-> st.current_a, current_b |-> ys[st.j + 1],
         scanline |-> ys[st.j + 1].value, i |-> st.i, j |-> st.j + 1]
    ELSE IF st.j >= Len(ys) THEN
        [current_a |-> xs[st.i + 1], current_b |-> st.current_b,
         scanline |-> xs[st.i + 1].value, i |-> st.i + 1, j |-> st.j]
    ELSE
        LET ca == xs[st.i + 1]
            cb == ys[st.j + 1]
            s  == Min(ca.value, cb.value)
        IN  [current_a |-> ca, current_b |-> cb, scanline |-> s,
             i |-> st.i + BoolInt(ca.value = s),
             j |-> st.j + BoolInt(cb.value = s /\ ca.value # s)]

AdvanceAlwaysB(xs, ys, st) ==
    IF st.i >= Len(xs) THEN
        [current_a |-> st.current_a, current_b |-> ys[st.j + 1],
         scanline |-> ys[st.j + 1].value, i |-> st.i, j |-> st.j + 1]
    ELSE IF st.j >= Len(ys) THEN
        [current_a |-> xs[st.i + 1], current_b |-> st.current_b,
         scanline |-> xs[st.i + 1].value, i |-> st.i + 1, j |-> st.j]
    ELSE
        LET ca == xs[st.i + 1]
            cb == ys[st.j + 1]
            s  == Min(ca.value, cb.value)
        IN  [current_a |-> ca, current_b |-> cb, scanline |-> s,
             i |-> st.i + BoolInt(ca.value = s),
             j |-> st.j + 1]

AdvanceExhaustedSwapped(xs, ys, st) ==
    IF st.i >= Len(xs) THEN
        [current_a |-> ys[st.j + 1], current_b |-> st.current_b,
         scanline |-> ys[st.j + 1].value, i |-> st.i, j |-> st.j + 1]
    ELSE IF st.j >= Len(ys) THEN
        [current_a |-> xs[st.i + 1], current_b |-> st.current_b,
         scanline |-> xs[st.i + 1].value, i |-> st.i + 1, j |-> st.j]
    ELSE
        LET ca == xs[st.i + 1]
            cb == ys[st.j + 1]
            s  == Min(ca.value, cb.value)
        IN  [current_a |-> ca, current_b |-> cb, scanline |-> s,
             i |-> st.i + BoolInt(ca.value = s),
             j |-> st.j + BoolInt(cb.value = s)]

Advance(xs, ys, st) ==
    IF st.i >= Len(xs) THEN
        [current_a |-> st.current_a, current_b |-> ys[st.j + 1],
         scanline |-> ys[st.j + 1].value, i |-> st.i, j |-> st.j + 1]
    ELSE IF st.j >= Len(ys) THEN
        [current_a |-> xs[st.i + 1], current_b |-> st.current_b,
         scanline |-> xs[st.i + 1].value, i |-> st.i + 1, j |-> st.j]
    ELSE
        LET ca == xs[st.i + 1]
            cb == ys[st.j + 1]
            s  == Min(ca.value, cb.value)
        IN  [current_a |-> ca, current_b |-> cb, scanline |-> s,
             i |-> st.i + BoolInt(ca.value = s),
             j |-> st.j + BoolInt(cb.value = s)]

EmitNoPointGap(inside, s, at, right) ==
    IF inside THEN
        IF ~right THEN <<Endpoint(s, IF at THEN "]" ELSE ")")>>
        ELSE <<>>
    ELSE
        IF right THEN <<Endpoint(s, IF at THEN "[" ELSE "(")>>
        ELSE IF at THEN <<Endpoint(s, "["), Endpoint(s, "]")>>
        ELSE <<>>

\* The endpoints appended by one loop iteration (lines 155-168).
Emit(inside, s, at, right) ==
    IF inside THEN
        IF ~right THEN <<Endpoint(s, IF at THEN "]" ELSE ")")>>
        ELSE IF ~at THEN <<Endpoint(s, ")"), Endpoint(s, "(")>>
        ELSE <<>>
    ELSE
        IF right THEN <<Endpoint(s, IF at THEN "[" ELSE "(")>>
        ELSE IF at THEN <<Endpoint(s, "["), Endpoint(s, "]")>>
        ELSE <<>>

NextInsideNeverLeaves(inside, right) == inside \/ right

NextInside(inside, right) ==
    IF inside THEN (IF ~right THEN FALSE ELSE inside)
    ELSE (IF right THEN TRUE ELSE inside)

\* One iteration of the while loop of _merge (lines 129-168).
MergeIter(xs, ys, o, st) ==
    LET adv   == Advance(xs, ys, st)
        at    == Apply(o, EndpointContains(adv.current_a, adv.scanline),
                          EndpointContains(adv.current_b, adv.scanline))
        right == Apply(o, EndpointContainsRight(adv.current_a, adv.scanline),
                          EndpointContainsRight(adv.current_b, adv.scanline))
    IN  [endpoints |-> st.endpoints \o Emit(st.inside_region, adv.scanline, at, right),
         i |-> adv.i, j |-> adv.j,
         inside_region |-> NextInside(st.inside_region, right),
         scanline |-> adv.scanline,
         current_a |-> adv.current_a, current_b |-> adv.current_b,
         at_scanline |-> at, right_of_scanline |-> right]

RECURSIVE MergeLoop(_, _, _, _)
MergeLoop(xs, ys, o, st) ==
    IF st.i < Len(xs) \/ st.j < Len(ys)
    THEN MergeLoop(xs, ys, o, MergeIter(xs, ys, o, st))
    ELSE st.endpoints

Merge(xs, ys, o) == MergeLoop(xs, ys, o, MergeStart)

(* --------------------------- Gaps.__init__ ----------------------------- *)

Ok(es) == [status |-> "ok", endpoints |-> es]

ValueError(msg) == [status |-> "ValueError", endpoints |-> <<>>, msg |-> msg]

NoResult == [status |-> "none", endpoints |-> <<>>]

Raw(v) == [value |-> v, boundary |-> "raw"]

PromoteAlwaysLeft(es) ==
    [k \in 1..Len(es) |->
        IF ~isEndpoint(es[k]) THEN Endpoint(es[k].value, "[") ELSE es[k]]

\* lines 202-211: promotion of raw values and the parity check.
Promote(es) ==
    [k \in 1..Len(es) |->
        IF ~isEndpoint(es[k])
        THEN Endpoint(es[k].value, IF (k - 1) % 2 = 0 THEN "[" ELSE "]")
        ELSE es[k]]

WrongBoundaryEvenOnly(es) ==
    \E k \in 1..Len(es) :
        isEndpoint(es[k]) /\ (k - 1) % 2 = 0 /\ is_right(es[k])

WrongBoundary(es) ==
    \E k \in 1..Len(es) :
        /\ isEndpoint(es[k])
        /\ \/ (k - 1) % 2 = 0 /\ is_right(es[k])
           \/ (k - 1) % 2 = 1 /\ is_left(es[k])

DeletePair(es, k) ==
    SubSeq(es, 1, k) \o SubSeq(es, k + 3, Len(es))

Minimal(e, f) ==
    <<e.boundary, f.boundary>> \in {<<"[", "]">>, <<")", "(">>}

\* lines 213-224: the sortedness / minimal-expression loop; k is the
\* 0-based index i of the code.
RECURSIVE StrictLoopNoFix(_, _)
StrictLoopNoFix(es, k) ==
    IF k < Len(es) - 1 THEN
        IF EndpointGt(es[k + 1], es[k + 2]) THEN ValueError("Endpoints unsorted")
        ELSE StrictLoopNoFix(es, k + 1)
    ELSE Ok(es)

RECURSIVE StrictLoop(_, _)
StrictLoop(es, k) ==
    IF k < Len(es) - 1 THEN
        IF EndpointGt(es[k + 1], es[k + 2]) THEN ValueError("Endpoints unsorted")
        ELSE IF es[k + 1].value = es[k + 2].value /\ ~Minimal(es[k + 1], es[k + 2])
             THEN StrictLoop(DeletePair(es, k), k)
             ELSE StrictLoop(es, k + 1)
    ELSE Ok(es)

GapsInit(es) ==
    IF Len(es) % 2 = 1 THEN ValueError("Need an even number of endpoints.")
    ELSE IF WrongBoundary(es) THEN ValueError("Expected other boundary")
    ELSE StrictLoop(Promote(es), 0)

\* dataclass equality: the endpoint lists compare element-wise with
\* Endpoint.__eq__.
GapsEq(xs, ys) ==
    /\ Len(xs) = Len(ys)
    /\ \A k \in 1..Len(xs) : EndpointEq(xs[k], ys[k])

(* --------------------------- the operators ----------------------------- *)

\* __or__/__and__/__xor__/__sub__ : type(self)(_merge(self, other, op)).
BinOp(xs, ys, o) == GapsInit(Merge(xs, ys, o))

(* -------------------------- Gaps.__contains__ -------------------------- *)

\* bisect.bisect (bisect_right) with key=attrgetter("value").
RECURSIVE Bisect(_, _, _, _)
Bisect(es, v, lo, hi) ==
    IF lo < hi THEN
        LET mid == (lo + hi) \div 2 IN
        IF v < es[mid + 1].value THEN Bisect(es, v, lo, mid)
        ELSE Bisect(es, v, mid + 1, hi)
    ELSE lo

ContainsNoClosedCheck(es, v) ==
    LET k == Bisect(es, v, 0, Len(es)) IN
    IF k = 0 THEN FALSE
    ELSE IF k < Len(es) THEN is_right(es[k + 1])
    ELSE FALSE

Contains(es, v) ==
    LET k == Bisect(es, v, 0, Len(es)) IN
    IF k = 0 THEN FALSE
    ELSE IF es[k].value = v THEN is_closed(es[k])
    ELSE IF k < Len(es) THEN is_right(es[k + 1])
    ELSE FALSE

(* ------------------------------ inputs --------------------------------- *)

Lefts == {Endpoint(v, bd) : v \in Values, bd \in {"(", "["}}

Rights == {Endpoint(v, bd) : v \in Values, bd \in {")", "]"}}

\* The endpoint sequences the constructor accepts and stores unchanged.
RECURSIVE ValidUpTo(_)
ValidUpTo(n) ==
    IF n = 0 THEN {<<>>}
    ELSE LET prev == ValidUpTo(n - 1) IN
         prev \cup {es \in {xs \o <<l, r>> : xs \in {p \in prev : Len(p) = 2 * (n - 1)},
                                             l \in Lefts, r \in Rights} :
                       GapsInit(es) = Ok(es)}

ValidGaps == ValidUpTo(MaxIntervals)

Universal == <<Endpoint(NegInf, "("), Endpoint(PosInf, ")")>>

(* --------------------------- specification ----------------------------- *)

Init ==
    /\ a \in ValidGaps
    /\ b \in ValidGaps
    /\ op \in Ops
    /\ pc = "merge"
    /\ endpoints = MergeStart.endpoints
    /\ i = MergeStart.i
    /\ j = MergeStart.j
    /\ inside_region = MergeStart.inside_region
    /\ scanline = MergeStart.scanline
    /\ current_a = MergeStart.current_a
    /\ current_b = MergeStart.current_b
    /\ at_scanline = MergeStart.at_scanline
    /\ right_of_scanline = MergeStart.right_of_scanline
    /\ result = NoResult
    /\ value = Unbound
    /\ found = Unbound
    /\ input = Unbound
    /\ text = Unbound
    /\ other = Unbound
    /\ elem = Unbound
    /\ heap = Unbound

MergeState ==
    [endpoints |-> endpoints, i |-> i, j |-> j, inside_region |-> inside_region,
     scanline |-> scanline, current_a |-> current_a, current_b |-> current_b,
     at_scanline |-> at_scanline, right_of_scanline |-> right_of_scanline]

\* One iteration of the loop of _merge inside a | b, a & b, a ^ b or a - b.
MergeStep ==
    /\ pc = "merge"
    /\ i < Len(a) \/ j < Len(b)
    /\ \E st \in {MergeIter(a, b, op, MergeState)} :
        /\ endpoints' = st.endpoints
        /\ i' = st.i
        /\ j' = st.j
        /\ inside_region' = st.inside_region
        /\ scanline' = st.scanline
        /\ current_a' = st.current_a
        /\ current_b' = st.current_b
        /\ at_scanline' = st.at_scanline
        /\ right_of_scanline' = st.right_of_scanline
    /\ UNCHANGED <<a, b, op, pc, result, value, found, input, text, other, elem, heap>>

\* The loop exits, _merge returns and the operator constructs the Gaps.
Return ==
    /\ pc = "merge"
    /\ ~(i < Len(a) \/ j < Len(b))
    /\ result' = GapsInit(endpoints)
    /\ pc' = "done"
    /\ UNCHANGED <<a, b, op, endpoints, i, j, inside_region, scanline,
                   current_a, current_b, at_scanline, right_of_scanline,
                   value, found, input, text, other, elem, heap>>

Next == MergeStep \/ Return

Spec == Init /\ [][Next]_vars

(* ------------- specification of the membership test -------------------- *)

InitContains ==
    /\ a \in ValidGaps
    /\ b = <<>>
    /\ op = "or"
    /\ pc = "contains"
    /\ endpoints = MergeStart.endpoints
    /\ i = MergeStart.i
    /\ j = MergeStart.j
    /\ inside_region = MergeStart.inside_region
    /\ scanline = MergeStart.scanline
    /\ current_a = MergeStart.current_a
    /\ current_b = MergeStart.current_b
    /\ at_scanline = MergeStart.at_scanline
    /\ right_of_scanline = MergeStart.right_of_scanline
    /\ result = NoResult
    /\ value = Unbound
    /\ found = Unbound
    /\ input = Unbound
    /\ text = Unbound
    /\ other = Unbound
    /\ elem = Unbound
    /\ heap = Unbound

\* value in a
ContainsCall ==
    /\ pc \in {"contains", "contained"}
    /\ \E v \in Domain :
        /\ value' = v
        /\ found' = Contains(a, v)
    /\ pc' = "contained"
    /\ UNCHANGED <<a, b, op, endpoints, i, j, inside_region, scanline,
                   current_a, current_b, at_scanline, right_of_scanline, result,
                   input, text, other, elem, heap>>

NextContains == ContainsCall

SpecContains == InitContains /\ [][NextContains]_vars

(* ---------------- specification of the constructor --------------------- *)

NumInputValues == 2

MaxInputLen == 4

InputValues == {2 * k : k \in 1..NumInputValues}

InputDomain == 1..(2 * NumInputValues + 1)

\* What a caller may put in the sequence: Endpoints and raw values.
InputElements ==
    {Endpoint(v, bd) : v \in InputValues, bd \in Boundary}
        \cup {Raw(v) : v \in InputValues}

InputSeqs == UNION {[1..n -> InputElements] : n \in 0..MaxInputLen}

\* The locals of _merge and of the other calls, when no such call runs.
Idle ==
    /\ endpoints = MergeStart.endpoints
    /\ i = MergeStart.i
    /\ j = MergeStart.j
    /\ inside_region = MergeStart.inside_region
    /\ scanline = MergeStart.scanline
    /\ current_a = MergeStart.current_a
    /\ current_b = MergeStart.current_b
    /\ at_scanline = MergeStart.at_scanline
    /\ right_of_scanline = MergeStart.right_of_scanline
    /\ value = Unbound
    /\ found = Unbound

InitConstruct ==
    /\ input \in InputSeqs
    /\ pc = "construct"
    /\ a = <<>>
    /\ b = <<>>
    /\ op = "or"
    /\ result = NoResult
    /\ text = Unbound
    /\ other = Unbound
    /\ elem = Unbound
    /\ heap = Unbound
    /\ Idle

\* Gaps(input)
Construct ==
    /\ pc = "construct"
    /\ result' = GapsInit(input)
    /\ pc' = "constructed"
    /\ UNCHANGED <<a, b, op, endpoints, i, j, inside_region, scanline,
                   current_a, current_b, at_scanline, right_of_scanline,
                   value, found, input, text, other, elem, heap>>

NextConstruct == Construct

SpecConstruct == InitConstruct /\ [][NextConstruct]_vars

(* ------------------------- auxiliary predicates ------------------------ *)

\* v is in the set denoted by the consecutive pairs of es.
Member(es, v) ==
    \E k \in 1..(Len(es) \div 2) :
        LET l == es[2 * k - 1]
            r == es[2 * k]
        IN  /\ l.value < v \/ (l.value = v /\ is_closed(l))
            /\ v < r.value \/ (v = r.value /\ is_closed(r))

\* even length, alternating left/right, sorted, minimally expressed.
ValidEndpoints(es) ==
    /\ Len(es) % 2 = 0
    /\ \A k \in 1..Len(es) : IF k % 2 = 1 THEN is_left(es[k]) ELSE is_right(es[k])
    /\ \A k \in 1..(Len(es) - 1) :
        /\ ~EndpointGt(es[k], es[k + 1])
        /\ es[k].value = es[k + 1].value => Minimal(es[k], es[k + 1])

\* es has two endpoints at v (a singleton [v, v] or a point gap )v (v).
TwoAt(es, v) ==
    \E k \in 1..(Len(es) - 1) : es[k].value = v /\ es[k + 1].value = v

OneAt(es, v) ==
    Cardinality({k \in 1..Len(es) : es[k].value = v}) = 1

\* a singleton or point gap of one operand touches an endpoint of the other.
Touching(xs, ys) ==
    \E v \in Values : TwoAt(xs, v) /\ OneAt(ys, v)

SameValues(xs, ys) ==
    \A v \in NegInf..PosInf : Contains(xs, v) <=> Contains(ys, v)

SameOutcome(r, s) ==
    /\ r.status = s.status
    /\ r.status = "ok" => GapsEq(r.endpoints, s.endpoints)

Complement(xs) == BinOp(xs, Universal, "xor")

MembershipHolds(o) ==
    /\ result.status = "ok"
    /\ \A v \in Domain :
        Contains(result.endpoints, v) <=> Apply(o, Contains(a, v), Contains(b, v))

(* ------------------------------- claims -------------------------------- *)

\* C1: for valid Gaps a and b, a | b returns a Gaps and a domain value is a
\* member of it iff it is a member of a or of b.
UnionMembership ==
    (pc = "done" /\ op = "or") => MembershipHolds("or")

UnionMembershipWitness ==
    /\ pc = "done" /\ op = "or" /\ result.status = "ok"
    /\ Touching(a, b)
    /\ result.endpoints # endpoints

\* C2: for valid Gaps a and b, a & b returns a Gaps and a domain value is a
\* member of it iff it is a member of both a and b.
IntersectionMembership ==
    (pc = "done" /\ op = "and") => MembershipHolds("and")

\* C3: for valid Gaps a and b, a - b returns a Gaps and a domain value is a
\* member of it iff it is a member of a and not a member of b.
SubtractionMembership ==
    (pc = "done" /\ op = "sub") => MembershipHolds("sub")

\* C4: for valid Gaps a and b, a ^ b returns a Gaps and a domain value is a
\* member of it iff it is a member of exactly one of a and b.
SymmetricDifferenceMembership ==
    (pc = "done" /\ op = "xor") => MembershipHolds("xor")

\* C5: every operator applied to two valid Gaps completes without raising
\* and returns a Gaps whose endpoint sequence is valid.
Closure ==
    pc = "done" => (result.status = "ok" /\ ValidEndpoints(result.endpoints))

\* C6: a | a == a, a & a == a, a ^ a == Gaps() and a - a == Gaps().
Idempotence ==
    (pc = "done" /\ a = b) =>
        /\ result.status = "ok"
        /\ op \in {"or", "and"} => GapsEq(result.endpoints, a)
        /\ op \in {"xor", "sub"} => GapsEq(result.endpoints, <<>>)

IdempotenceWitness ==
    /\ pc = "done" /\ a = b /\ op = "and" /\ result.status = "ok"
    /\ Len(a) = 2 * MaxIntervals
    /\ \E v \in Values : TwoAt(a, v)

DeMorganSide(o, dual) ==
    /\ result.status = "ok"
    /\ LET lhs == Complement(result.endpoints)
           na  == Complement(a)
           nb  == Complement(b)
       IN  /\ lhs.status = "ok" /\ na.status = "ok" /\ nb.status = "ok"
           /\ LET rhs == BinOp(na.endpoints, nb.endpoints, dual)
              IN  rhs.status = "ok" /\ GapsEq(lhs.endpoints, rhs.endpoints)

DeMorgan ==
    /\ (pc = "done" /\ op = "or") => DeMorganSide("or", "and")
    /\ (pc = "done" /\ op = "and") => DeMorganSide("and", "or")

\* C9: two valid Gaps (operands or an operator's result) compare equal iff
\* they contain exactly the same values.
CanonicalFormUnique ==
    /\ GapsEq(a, b) <=> SameValues(a, b)
    /\ (pc = "done" /\ result.status = "ok") =>
        /\ GapsEq(result.endpoints, a) <=> SameValues(result.endpoints, a)
        /\ GapsEq(result.endpoints, b) <=> SameValues(result.endpoints, b)

CanonicalFormUniqueWitness ==
    /\ pc = "done" /\ result.status = "ok"
    /\ a # b /\ Len(b) > 0
    /\ GapsEq(result.endpoints, a)
    /\ \E k \in 1..Len(a) : is_open(a[k])

\* C10: value in a is true iff some consecutive pair (l, r) of a has
\* l.value < value or l closed at value, and value < r.value or r closed at
\* value.
MembershipTest ==
    pc = "contained" => (found <=> Member(a, value))

MembershipTestWitness ==
    /\ pc = "contained" /\ found = TRUE
    /\ TwoAt(a, value)
    /\ Len(a) = 2 * MaxIntervals

(* -------------------- claims about the constructor --------------------- *)

\* rank ')' = 0, '[' = ']' = 1, '(' = 2.
Rank(bd) == IF bd = ")" THEN 0 ELSE IF bd = "(" THEN 2 ELSE 1

\* e > f: greater value, or equal value with higher boundary rank.
Descending(e, f) ==
    \/ e.value > f.value
    \/ e.value = f.value /\ Rank(e.boundary) > Rank(f.boundary)

\* The input with every raw value at an even (0-based) index written as a
\* left-closed and at an odd index as a right-closed Endpoint.
AsEndpoints(es) ==
    [k \in 1..Len(es) |->
        IF es[k].boundary = "raw"
        THEN [value |-> es[k].value, boundary |-> IF k % 2 = 1 THEN "[" ELSE "]"]
        ELSE es[k]]

ParityCorrect(es) ==
    /\ Len(es) % 2 = 0
    /\ \A k \in 1..Len(es) :
        IF k % 2 = 1 THEN es[k].boundary \in {"(", "["}
                     ELSE es[k].boundary \in {")", "]"}

HasDescendingPair(es) ==
    \E k \in 1..(Len(es) - 1) : Descending(es[k], es[k + 1])

\* es[k], es[k+1] are a right endpoint and the next left endpoint at the same
\* value with no missing point between them.
TouchingAt(es, k) ==
    /\ k >= 1 /\ k < Len(es) /\ k % 2 = 0
    /\ es[k].value = es[k + 1].value
    /\ <<es[k].boundary, es[k + 1].boundary>>
           \in {<<")", "[">>, <<"]", "(">>, <<"]", "[">>}

RECURSIVE WithoutTouching(_, _)
WithoutTouching(es, k) ==
    IF k > Len(es) THEN <<>>
    ELSE IF TouchingAt(es, k) \/ TouchingAt(es, k - 1)
         THEN WithoutTouching(es, k + 1)
         ELSE <<es[k]>> \o WithoutTouching(es, k + 1)

\* C11: an even-length, parity-correct input with a descending consecutive
\* pair anywhere raises ValueError 'Endpoints unsorted' and gives no Gaps.
UnsortedRejected ==
    (/\ pc = "constructed"
     /\ ParityCorrect(AsEndpoints(input))
     /\ HasDescendingPair(AsEndpoints(input)))
        => (result.status = "ValueError" /\ result.msg = "Endpoints unsorted")

\* C12: an odd number of elements, a right boundary at an even index or a
\* left boundary at an odd index raises ValueError and gives no Gaps.
StructuralValidation ==
    (/\ pc = "constructed"
     /\ \/ Len(input) % 2 = 1
        \/ \E k \in 1..Len(input) :
              \/ (k - 1) % 2 = 0 /\ input[k].boundary \in {")", "]"}
              \/ (k - 1) % 2 = 1 /\ input[k].boundary \in {"(", "["})
        => (result.status = "ValueError" /\ result.endpoints = <<>>)

StructuralValidationWitness ==
    /\ pc = "constructed" /\ result.status = "ValueError"
    /\ Len(input) = 4
    /\ input[Len(input)].boundary \in {"(", "["}
    /\ ParityCorrect(SubSeq(AsEndpoints(input), 1, Len(input) - 2))
    /\ ~HasDescendingPair(AsEndpoints(input))

\* C13: a parity-correct input without descending pair that has touching
\* pairs )[ , ]( or ][ is accepted, exactly those pairs are removed and
\* the Gaps contains exactly the values of the input intervals.
LenientAutoFix ==
    (/\ pc = "constructed"
     /\ ParityCorrect(AsEndpoints(input))
     /\ ~HasDescendingPair(AsEndpoints(input))
     /\ \E k \in 1..Len(input) : TouchingAt(AsEndpoints(input), k))
        => /\ result.status = "ok"
           /\ result.endpoints = WithoutTouching(AsEndpoints(input), 1)
           /\ \A v \in InputDomain :
                Member(result.endpoints, v) <=> Member(AsEndpoints(input), v)

LenientAutoFixWitness ==
    /\ pc = "constructed" /\ result.status = "ok"
    /\ ParityCorrect(AsEndpoints(input))
    /\ ~HasDescendingPair(AsEndpoints(input))
    /\ TouchingAt(AsEndpoints(input), 2)
    /\ input[2].boundary = ")"
    /\ Len(result.endpoints) = 2

\* C14: every Gaps the constructor returns stores endpoints with
\* e[i] < e[i+1] for every consecutive pair.
StrictSortedness ==
    (pc = "constructed" /\ result.status = "ok")
        => \A k \in 1..(Len(result.endpoints) - 1) :
              EndpointLt(result.endpoints[k], result.endpoints[k + 1])

\* C15: a raw value at an even index becomes a left-closed and at an odd
\* index a right-closed Endpoint: constructing from the raw or mixed input
\* gives what constructing from the explicit Endpoints gives.
RawValuePromotion ==
    pc = "constructed" =>
        /\ result = GapsInit(AsEndpoints(input))
        /\ \A k \in 1..Len(result.endpoints) :
              result.endpoints[k].boundary \in Boundary

RawValuePromotionWitness ==
    /\ pc = "constructed" /\ result.status = "ok"
    /\ Len(result.endpoints) = 4
    /\ input[1].boundary = "raw" /\ input[2].boundary = "raw"
    /\ input[3].boundary = "[" /\ input[4].boundary = "raw"

(* ------------- specification of the Endpoint comparisons --------------- *)

AllEndpoints == {Endpoint(v, bd) : v \in Values, bd \in Boundary}

InitCompare ==
    /\ input \in AllEndpoints \X AllEndpoints
    /\ pc = "compare"
    /\ a = <<>>
    /\ b = <<>>
    /\ op = "or"
    /\ result = NoResult
    /\ text = Unbound
    /\ other = Unbound
    /\ elem = Unbound
    /\ heap = Unbound
    /\ Idle

\* input[1] < input[2], input[1] == input[2], input[1] > input[2]
Compare ==
    /\ pc = "compare"
    /\ result' = [status |-> "ok", endpoints |-> <<>>,
                  lt |-> EndpointLt(input[1], input[2]),
                  eq |-> EndpointEq(input[1], input[2]),
                  gt |-> EndpointGt(input[1], input[2])]
    /\ pc' = "compared"
    /\ UNCHANGED <<a, b, op, endpoints, i, j, inside_region, scanline,
                   current_a, current_b, at_scanline, right_of_scanline,
                   value, found, input, text, other, elem, heap>>

NextCompare == Compare

SpecCompare == InitCompare /\ [][NextCompare]_vars

\* C16: a < b iff a.value < b.value, or the values are equal and
\* rank(a.boundary) < rank(b.boundary); a == b iff values and ranks are
\* equal; exactly one of a < b, a == b, a > b holds.
EndpointOrder ==
    pc = "compared" =>
        LET e == input[1]
            f == input[2]
        IN  /\ result.lt <=> \/ e.value < f.value
                             \/ e.value = f.value /\ Rank(e.boundary) < Rank(f.boundary)
            /\ result.eq <=> (e.value = f.value /\ Rank(e.boundary) = Rank(f.boundary))
            /\ Cardinality({r \in {"lt", "eq", "gt"} : result[r]}) = 1

EndpointOrderWitness ==
    /\ pc = "compared"
    /\ input[1].boundary = "]" /\ input[2].boundary = "["
    /\ input[1].value = input[2].value
    /\ result.eq /\ ~result.lt /\ ~result.gt

(* ------------------ Gaps.__str__ and Gaps.from_string ------------------ *)
(* A text is a sequence of one-character strings.  The floats -inf and inf *)
(* are the values NegInf and PosInf; every other value of a Gaps that is   *)
(* printed lies strictly between them.                                     *)

Digits == <<"0", "1", "2", "3", "4", "5", "6", "7", "8", "9">>

IsDigit(c) == \E d \in 1..Len(Digits) : Digits[d] = c

DigitVal(c) == (CHOOSE d \in 1..Len(Digits) : Digits[d] = c) - 1

\* str(n) of an int.
RECURSIVE IntStr(_)
IntStr(n) ==
    IF n < 0 THEN <<"-">> \o IntStr(0 - n)
    ELSE IF n < 10 THEN <<Digits[n + 1]>>
    ELSE IntStr(n \div 10) \o <<Digits[(n % 10) + 1]>>

\* str(value): an int, or the float inf / -inf.
ValueStr(v) ==
    IF v = PosInf THEN <<"i", "n", "f">>
    ELSE IF v = NegInf THEN <<"-", "i", "n", "f">>
    ELSE IntStr(v)

EndpointStrValueFirst(e) == ValueStr(e.value) \o <<e.boundary>>

\* Endpoint.__str__
EndpointStr(e) ==
    IF is_left(e) THEN <<e.boundary>> \o ValueStr(e.value)
    ELSE ValueStr(e.value) \o <<e.boundary>>

\* The list built by the loop of Gaps.__str__; k is the 1-based index of
\* the left endpoint of the next pair.
RECURSIVE StrItems(_, _)
StrItems(es, k) ==
    IF k + 1 > Len(es) THEN <<>>
    ELSE (IF EndpointEq(es[k], es[k + 1])
          THEN << <<"[">> \o ValueStr(es[k].value) \o <<"]">> >>
          ELSE <<EndpointStr(es[k]), EndpointStr(es[k + 1])>>)
         \o StrItems(es, k + 2)

\* ", ".join(items)
RECURSIVE Join(_, _)
Join(items, k) ==
    IF k > Len(items) THEN <<>>
    ELSE IF k = Len(items) THEN items[k]
    ELSE items[k] \o <<",", " ">> \o Join(items, k + 1)

\* Gaps.__str__
GapsStr(es) == <<"{">> \o Join(StrItems(es, 1), 1) \o <<"}">>

NotSpace(c) == c # " "

\* str.replace(" ", "")
RemoveSpaces(t) == SelectSeq(t, NotSpace)

\* str.split(",")
RECURSIVE Split(_)
Split(t) ==
    IF \E k \in 1..Len(t) : t[k] = ","
    THEN LET k == CHOOSE m \in 1..Len(t) :
                    t[m] = "," /\ \A n \in 1..(m - 1) : t[n] # ","
         IN  <<SubSeq(t, 1, k - 1)>> \o Split(SubSeq(t, k + 1, Len(t)))
    ELSE <<t>>

IsNatText(t) == Len(t) > 0 /\ \A k \in 1..Len(t) : IsDigit(t[k])

RECURSIVE NatVal(_)
NatVal(t) ==
    IF Len(t) = 0 THEN 0
    ELSE 10 * NatVal(SubSeq(t, 1, Len(t) - 1)) + DigitVal(t[Len(t)])

\* _to_number: int(text), else float(text), else ValueError; over the
\* characters of TextChars and of printed values.
ToNumber(t) ==
    IF IsNatText(t) THEN [status |-> "ok", value |-> NatVal(t)]
    ELSE IF Len(t) > 1 /\ t[1] = "-" /\ IsNatText(Tail(t))
         THEN [status |-> "ok", value |-> 0 - NatVal(Tail(t))]
    ELSE IF t = <<"i", "n", "f">> THEN [status |-> "ok", value |-> PosInf]
    ELSE IF t = <<"-", "i", "n", "f">> THEN [status |-> "ok", value |-> NegInf]
    ELSE [status |-> "ValueError", value |-> 0]

StartsWith(t, cs) == Len(t) > 0 /\ t[1] \in cs

EndsWith(t, cs) == Len(t) > 0 /\ t[Len(t)] \in cs

\* The loop over splits of from_string (lines 246-260); acc is the list
\* endpoints built so far.
RECURSIVE ParseSplits(_, _, _)
ParseSplits(splits, k, acc) ==
    IF k > Len(splits) THEN GapsInit(acc)
    ELSE
        LET split == splits[k] IN
        IF StartsWith(split, {"["}) /\ EndsWith(split, {"]"}) THEN
            LET n == ToNumber(SubSeq(split, 2, Len(split) - 1)) IN
            IF n.status # "ok" THEN ValueError("could not convert string")
            ELSE ParseSplits(splits, k + 1,
                     acc \o <<Endpoint(n.value, "["), Endpoint(n.value, "]")>>)
        ELSE IF StartsWith(split, {"(", "["}) THEN
            LET n == ToNumber(SubSeq(split, 2, Len(split))) IN
            IF n.status # "ok" THEN ValueError("could not convert string")
            ELSE ParseSplits(splits, k + 1, acc \o <<Endpoint(n.value, split[1])>>)
        ELSE IF EndsWith(split, {")", "]"}) THEN
            LET n == ToNumber(SubSeq(split, 1, Len(split) - 1)) IN
            IF n.status # "ok" THEN ValueError("could not convert string")
            ELSE ParseSplits(splits, k + 1,
                     acc \o <<Endpoint(n.value, split[Len(split)])>>)
        ELSE ValueError("Invalid endpoint")

IndexError == [status |-> "IndexError", endpoints |-> <<>>]

\* Gaps.from_string
FromString(t) ==
    IF Len(t) = 0 THEN IndexError
    ELSE IF t[1] # "{" \/ t[Len(t)] # "}"
         THEN ValueError("Gap string must start and end with curly braces")
    ELSE LET splits == Split(RemoveSpaces(SubSeq(t, 2, Len(t) - 1))) IN
         IF Len(splits) = 1 /\ splits[1] = <<>> THEN GapsInit(<<>>)
         ELSE ParseSplits(splits, 1, <<>>)

(* ------------ specification of printing and parsing -------------------- *)

MaxTextLen == 4

TextChars == {"{", "}", "[", "]", "(", ")", ",", " ", "2", "x"}

Texts == UNION {[1..n -> TextChars] : n \in 0..MaxTextLen}

PrintedValues == Values \cup {NegInf, PosInf}

\* The valid Gaps over integers with optional -inf / inf bounds.
RECURSIVE PrintableUpTo(_)
PrintableUpTo(n) ==
    IF n = 0 THEN {<<>>}
    ELSE LET prev == PrintableUpTo(n - 1) IN
         prev \cup {es \in {xs \o <<Endpoint(v, l), Endpoint(w, r)>> :
                               xs \in {p \in prev : Len(p) = 2 * (n - 1)},
                               v \in PrintedValues, l \in {"(", "["},
                               w \in PrintedValues, r \in {")", "]"}} :
                       GapsInit(es) = Ok(es)}

PrintableGaps == PrintableUpTo(MaxIntervals)

InitString ==
    /\ \/ a \in PrintableGaps /\ pc = "str" /\ text = Unbound
       \/ a = <<>> /\ pc = "parse" /\ text \in Texts
    /\ b = <<>>
    /\ op = "or"
    /\ result = NoResult
    /\ input = Unbound
    /\ other = Unbound
    /\ elem = Unbound
    /\ heap = Unbound
    /\ Idle

\* text = str(a)
Str ==
    /\ pc = "str"
    /\ text' = GapsStr(a)
    /\ pc' = "printed"
    /\ UNCHANGED <<a, b, op, endpoints, i, j, inside_region, scanline,
                   current_a, current_b, at_scanline, right_of_scanline,
                   result, value, found, input, other, elem, heap>>

\* Gaps.from_string(text)
Parse ==
    /\ pc \in {"printed", "parse"}
    /\ result' = FromString(text)
    /\ pc' = IF pc = "printed" THEN "roundtrip" ELSE "parsed"
    /\ UNCHANGED <<a, b, op, endpoints, i, j, inside_region, scanline,
                   current_a, current_b, at_scanline, right_of_scanline,
                   value, found, input, text, other, elem, heap>>

NextString == Str \/ Parse

SpecString == InitString /\ [][NextString]_vars

\* C17: Gaps.from_string(str(a)) == a for every valid Gaps a over integers
\* and -inf / inf, the empty Gaps, singletons and point gaps included.
StringRoundTrip ==
    pc = "roundtrip" => (result.status = "ok" /\ GapsEq(result.endpoints, a))

StringRoundTripWitness ==
    /\ pc = "roundtrip" /\ result.status = "ok"
    /\ Len(a) = 4
    /\ a[1].value = NegInf /\ a[1].boundary = "("
    /\ a[2].value = a[3].value /\ a[2].boundary = ")"
    /\ a[4].value = PosInf

\* The comma-separated tokens between the braces, blanks dropped.
Tokens(t) ==
    LET inner == RemoveSpaces(SubSeq(t, 2, Len(t) - 1)) IN
    IF inner = <<>> THEN <<>> ELSE Split(inner)

Braced(t) == Len(t) > 0 /\ t[1] = "{" /\ t[Len(t)] = "}"

BadToken(t) ==
    /\ ~(Len(t) > 0 /\ t[1] \in {"(", "["})
    /\ ~(Len(t) > 0 /\ t[Len(t)] \in {")", "]"})

\* C18: from_string raises ValueError and returns no Gaps for every text
\* that does not start with '{' and end with '}' (the empty text included)
\* and for every brace-delimited text with a token that neither starts
\* with '(' or '[' nor ends with ')' or ']'.
ParseErrors ==
    (/\ pc = "parsed"
     /\ \/ ~Braced(text)
        \/ \E k \in 1..Len(Tokens(text)) : BadToken(Tokens(text)[k]))
        => (result.status = "ValueError" /\ result.endpoints = <<>>)

(* ------------- the operators applied to any right operand -------------- *)

NotImplemented == [status |-> "NotImplemented", endpoints |-> <<>>]

TypeError == [status |-> "TypeError", endpoints |-> <<>>]

\* A Gaps object: its endpoints and the type of its values.
GapsObject(es, t) == [kind |-> "Gaps", elem |-> t, endpoints |-> es]

\* Objects that are no Gaps: None and an int.
NonGapsObjects ==
    {[kind |-> "NoneType", elem |-> "none", endpoints |-> <<>>],
     [kind |-> "int", elem |-> "none", endpoints |-> <<>>]}

ElementTypes == {"int", "float"}

OperatorMethodNoIsinstance(self, oth, o) ==
    IF oth.kind # "Gaps" THEN [status |-> "AttributeError", endpoints |-> <<>>]
    ELSE BinOp(self.endpoints, oth.endpoints, o)

OperatorMethodSameElementType(self, oth, o) ==
    IF oth.kind # "Gaps" THEN NotImplemented
    ELSE IF oth.elem # self.elem THEN TypeError
    ELSE BinOp(self.endpoints, oth.endpoints, o)

\* Gaps.__or__ / __and__ / __xor__ / __sub__ (lines 262-284); int and float
\* values compare by their numeric value.
OperatorMethod(self, oth, o) ==
    IF oth.kind # "Gaps" THEN NotImplemented
    ELSE BinOp(self.endpoints, oth.endpoints, o)

\* self <op> oth: the method returns NotImplemented, the reflected method
\* of None or of an int does not exist or returns NotImplemented, and the
\* interpreter raises TypeError.
OperatorCall(self, oth, o) ==
    LET r == OperatorMethod(self, oth, o) IN
    IF r = NotImplemented THEN TypeError ELSE r

InitOperand ==
    /\ a \in ValidGaps
    /\ elem \in ElementTypes
    /\ heap = Unbound
    /\ other \in NonGapsObjects
                   \cup {GapsObject(es, t) : es \in ValidGaps, t \in ElementTypes}
    /\ op \in Ops
    /\ pc = "operate"
    /\ b = <<>>
    /\ result = NoResult
    /\ input = Unbound
    /\ text = Unbound
    /\ Idle

\* a <op> other
Operate ==
    /\ pc = "operate"
    /\ result' = OperatorCall(GapsObject(a, elem), other, op)
    /\ pc' = "operated"
    /\ UNCHANGED <<a, b, op, endpoints, i, j, inside_region, scanline,
                   current_a, current_b, at_scanline, right_of_scanline,
                   value, found, input, text, other, elem, heap>>

NextOperand == Operate

SpecOperand == InitOperand /\ [][NextOperand]_vars

\* C19: every operator applied to a Gaps and a right operand that is not a
\* Gaps fails with TypeError, returns nothing and leaves the Gaps unchanged.
NonGapsOperand ==
    [][(pc = "operate" /\ other.kind # "Gaps")
          => (/\ result'.status = "TypeError"
              /\ result'.endpoints = <<>>
              /\ a' = a)]_vars

NonGapsOperandWitness ==
    /\ pc = "operated" /\ other.kind = "NoneType"
    /\ result.status = "TypeError"
    /\ Len(a) = 2 * MaxIntervals /\ op = "sub"

\* C20 as stated: operands whose element types differ fail with a
\* type-mismatch error at the operator.
TypeMismatchRejected ==
    (pc = "operated" /\ other.kind = "Gaps" /\ other.elem # elem)
        => result.status = "TypeError"

\* C20 as amended: the operators do not look at the element types; operands
\* with int and with float values raise no type error and give the outcome
\* that operands with the same values of one element type give.
ElementTypesNotChecked ==
    (pc = "operated" /\ other.kind = "Gaps" /\ other.elem # elem)
        => /\ result.status # "TypeError"
           /\ result = OperatorCall(GapsObject(a, elem),
                                    GapsObject(other.endpoints, elem), op)

ElementTypesNotCheckedWitness ==
    /\ pc = "operated" /\ other.kind = "Gaps"
    /\ elem = "int" /\ other.elem = "float"
    /\ result.status = "ok" /\ op = "or"
    /\ Len(a) = 2 /\ Len(other.endpoints) = 2 /\ Len(result.endpoints) = 4

(* --------------------------------- Var --------------------------------- *)

\* Var(name): a dataclass with the one field name.
VarObject(n) == [kind |-> "Var", name |-> n]

VarNames == {"x", "y"}

\* The comparisons written with a Var x and a value v.
Comparisons ==
    {"x > v", "x >= v", "x < v", "x <= v", "v < x", "v <= x", "v > x", "v >= x"}

\* The method of Var a comparison reaches: the value's own method returns
\* NotImplemented for a Var, so a comparison with the value on the left
\* calls the reflected method of the Var.
VarMethod(c) ==
    CASE c \in {"x > v", "v < x"} -> "__gt__"
      [] c \in {"x >= v", "v <= x"} -> "__ge__"
      [] c \in {"x < v", "v > x"} -> "__lt__"
      [] c \in {"x <= v", "v >= x"} -> "__le__"

VarBoundaryClosedSwapped(m) ==
    CASE m = "__gt__" -> "["
      [] m = "__ge__" -> "("
      [] m = "__lt__" -> "]"
      [] m = "__le__" -> ")"

\* Var.__gt__, __ge__, __lt__, __le__ (var.py lines 34-44).
VarBoundary(m) ==
    CASE m = "__gt__" -> "("
      [] m = "__ge__" -> "["
      [] m = "__lt__" -> ")"
      [] m = "__le__" -> "]"

VarValues == NegInf..PosInf

InitVar ==
    /\ other \in {VarObject(n) : n \in VarNames}
    /\ pc = "var"
    /\ a = <<>>
    /\ b = <<>>
    /\ op = Unbound
    /\ result = NoResult
    /\ input = Unbound
    /\ text = Unbound
    /\ elem = Unbound
    /\ heap = Unbound
    /\ Idle

\* One comparison of the Var with a value; no method assigns to self.
VarCompare ==
    /\ pc \in {"var", "var compared"}
    /\ \E c \in Comparisons, v \in VarValues :
        /\ op' = c
        /\ value' = v
        /\ result' = Ok(<<Endpoint(v, VarBoundary(VarMethod(c)))>>)
    /\ pc' = "var compared"
    /\ UNCHANGED <<a, b, endpoints, i, j, inside_region, scanline,
                   current_a, current_b, at_scanline, right_of_scanline,
                   found, input, text, other, elem, heap>>

NextVar == VarCompare

SpecVar == InitVar /\ [][NextVar]_vars

\* C21: after any sequence of earlier comparisons, x > v and v < x give
\* Endpoint(v, "("), x >= v and v <= x give Endpoint(v, "["), x < v gives
\* Endpoint(v, ")") and x <= v gives Endpoint(v, "]"); the result depends
\* only on the comparison and v, and the Var is not changed.
VarStateless ==
    [][pc' = "var compared" =>
        /\ op' \in {"x > v", "v < x"} => result'.endpoints = <<Endpoint(value', "(")>>
        /\ op' \in {"x >= v", "v <= x"} => result'.endpoints = <<Endpoint(value', "[")>>
        /\ op' = "x < v" => result'.endpoints = <<Endpoint(value', ")")>>
        /\ op' = "x <= v" => result'.endpoints = <<Endpoint(value', "]")>>
        /\ other' = other]_vars

VarStatelessWitness ==
    /\ pc = "var compared" /\ other = VarObject("x")
    /\ op = "v <= x" /\ value = 2
    /\ result = Ok(<<Endpoint(2, "[")>>)

(* ------------------- list objects and their identity ------------------- *)

\* heap is the sequence of the list objects that are reachable; a list is
\* named by its index. A Gaps holds the index of its endpoints list.
GapsRef(ref) == [kind |-> "Gaps", ref |-> ref]

Returned(status, es, ref) == [status |-> status, endpoints |-> es, ref |-> ref]

GapsInitHeapInPlace(h, ref) ==
    LET r == GapsInit(h[ref]) IN
    IF r.status = "ok"
    THEN [heap |-> [h EXCEPT ![ref] = r.endpoints],
          result |-> Returned("ok", r.endpoints, ref)]
    ELSE [heap |-> h, result |-> Returned(r.status, <<>>, 0)]

\* Gaps.__init__ (lines 195-226): endpoints_strict is a new list; the
\* promoted endpoints are appended to it, the loop deletes from it, and it
\* becomes self.endpoints. When the constructor raises, the new list is
\* reachable from nothing.
GapsInitHeap(h, ref) ==
    LET r == GapsInit(h[ref]) IN
    IF r.status = "ok"
    THEN [heap |-> Append(h, r.endpoints),
          result |-> Returned("ok", r.endpoints, Len(h) + 1)]
    ELSE [heap |-> h, result |-> Returned(r.status, <<>>, 0)]

\* _merge (lines 117-170): endpoints is a new list, the only list appended to.
MergeHeap(h, ra, rb, o) ==
    [heap |-> Append(h, Merge(h[ra], h[rb], o)), ref |-> Len(h) + 1]

\* self <op> other for two Gaps (lines 262-284); the list of _merge is
\* reachable from nothing once the constructor has returned.
OperatorHeap(h, ra, rb, o) ==
    LET m == MergeHeap(h, ra, rb, o)
        g == GapsInitHeap(m.heap, m.ref)
    IN  IF g.result.status = "ok"
        THEN [heap |-> SubSeq(g.heap, 1, Len(h)) \o <<g.heap[g.result.ref]>>,
              result |-> Returned("ok", g.result.endpoints, Len(h) + 1)]
        ELSE [heap |-> SubSeq(g.heap, 1, Len(h)), result |-> g.result]

Readers == {"in", "bool", "str"}

Calls == Ops \cup Readers \cup {"construct"}

InitPurity ==
    /\ op \in Calls
    /\ \/ /\ op = "construct"
          /\ heap \in {<<s>> : s \in InputSeqs}
          /\ other = Unbound
       \/ /\ op \in Readers
          /\ heap \in {<<xs>> : xs \in ValidGaps}
          /\ other = Unbound
       \/ /\ op \in Ops
          /\ heap \in {<<xs, ys>> : xs \in ValidGaps, ys \in ValidGaps}
          /\ other \in {GapsRef(1), GapsRef(2)}
    /\ pc = "call"
    /\ a = <<>>
    /\ b = <<>>
    /\ result = NoResult
    /\ input = Unbound
    /\ text = Unbound
    /\ elem = Unbound
    /\ Idle

\* Gaps(list 1)
CallConstruct ==
    /\ pc = "call" /\ op = "construct"
    /\ LET g == GapsInitHeap(heap, 1) IN
        /\ heap' = g.heap
        /\ result' = g.result
    /\ pc' = "returned"
    /\ UNCHANGED <<a, b, op, endpoints, i, j, inside_region, scanline,
                   current_a, current_b, at_scanline, right_of_scanline,
                   value, found, input, text, other, elem>>

\* self <op> other, self the Gaps of list 1
CallOperator ==
    /\ pc = "call" /\ op \in Ops
    /\ LET g == OperatorHeap(heap, 1, other.ref, op) IN
        /\ heap' = g.heap
        /\ result' = g.result
    /\ pc' = "returned"
    /\ UNCHANGED <<a, b, op, endpoints, i, j, inside_region, scanline,
                   current_a, current_b, at_scanline, right_of_scanline,
                   value, found, input, text, other, elem>>

\* v in self, bool(self), str(self): they read self.endpoints only.
CallReader ==
    /\ pc = "call" /\ op \in Readers
    /\ \/ /\ op = "in"
          /\ \E v \in Domain : value' = v /\ found' = Contains(heap[1], v)
          /\ text' = text
       \/ /\ op = "bool"
          /\ found' = (Len(heap[1]) > 0)
          /\ UNCHANGED <<value, text>>
       \/ /\ op = "str"
          /\ text' = GapsStr(heap[1])
          /\ UNCHANGED <<value, found>>
    /\ result' = Returned("ok", <<>>, 0)
    /\ pc' = "returned"
    /\ UNCHANGED <<a, b, op, endpoints, i, j, inside_region, scanline,
                   current_a, current_b, at_scanline, right_of_scanline,
                   input, other, elem, heap>>

NextPurity == CallConstruct \/ CallOperator \/ CallReader

SpecPurity == InitPurity /\ [][NextPurity]_vars

\* C22: no operation (|, &, ^, -, in, bool, str, construction) changes the
\* endpoint list of an existing Gaps or the list given to the constructor,
\* and the list of a returned Gaps is none of these lists, whether the
\* operation returns or raises.
Purity ==
    [][pc' = "returned" =>
        /\ Len(heap') >= Len(heap)
        /\ \A k \in 1..Len(heap) : heap'[k] = heap[k]
        /\ result'.ref \notin 1..Len(heap)
        /\ result'.status = "ok" /\ op \in Ops \cup {"construct"}
              => result'.ref \in 1..Len(heap')]_vars

PurityWitness ==
    /\ pc = "returned" /\ op = "construct"
    /\ result.status = "ok"
    /\ Len(heap[1]) = 4 /\ Len(heap[result.ref]) = 2

(* -------------- removing and re-filling a point of a Gaps -------------- *)

\* Gaps([p, p])
Singleton(p) == GapsInit(<<Raw(p), Raw(p)>>).endpoints

InitPoint ==
    /\ a \in ValidGaps
    /\ \E p \in Domain : b = Singleton(p)
    /\ op = "sub"
    /\ pc = "point"
    /\ result = NoResult
    /\ input = Unbound
    /\ text = Unbound
    /\ other = Unbound
    /\ elem = Unbound
    /\ heap = Unbound
    /\ Idle

\* a - Gaps([p, p])
RemovePoint ==
    /\ pc = "point"
    /\ result' = BinOp(a, b, "sub")
    /\ pc' = "removed"
    /\ UNCHANGED <<a, b, op, endpoints, i, j, inside_region, scanline,
                   current_a, current_b, at_scanline, right_of_scanline,
                   value, found, input, text, other, elem, heap>>

\* (a - Gaps([p, p])) | a
Refill ==
    /\ pc = "removed"
    /\ result.status = "ok"
    /\ result' = BinOp(result.endpoints, a, "or")
    /\ op' = "or"
    /\ pc' = "refilled"
    /\ UNCHANGED <<a, b, endpoints, i, j, inside_region, scanline,
                   current_a, current_b, at_scanline, right_of_scanline,
                   value, found, input, text, other, elem, heap>>

NextPoint == RemovePoint \/ Refill

SpecPoint == InitPoint /\ [][NextPoint]_vars

\* the interval of es that has p strictly inside, 0 if there is none
IntervalAround(es, p) ==
    LET ks == {k \in 1..(Len(es) \div 2) :
                  es[2 * k - 1].value < p /\ p < es[2 * k].value}
    IN  IF ks = {} THEN 0 ELSE CHOOSE k \in ks : TRUE

WithPointGap(es, p) ==
    LET k == IntervalAround(es, p) IN
    SubSeq(es, 1, 2 * k - 1) \o <<Endpoint(p, ")"), Endpoint(p, "(")>>
        \o SubSeq(es, 2 * k, Len(es))

\* C23: for a valid Gaps a and a value p strictly inside one interval of a,
\* a - Gaps([p, p]) is a with the pair p) (p inserted into that interval,
\* and (a - Gaps([p, p])) | a is a.
RemoveAndRefill ==
    IntervalAround(a, b[1].value) # 0 =>
        /\ pc = "removed" =>
              /\ result.status = "ok"
              /\ GapsEq(result.endpoints, WithPointGap(a, b[1].value))
        /\ pc = "refilled" =>
              /\ result.status = "ok"
              /\ GapsEq(result.endpoints, a)

RemoveAndRefillWitness ==
    /\ pc = "refilled" /\ result.status = "ok"
    /\ Len(a) = 4 /\ IntervalAround(a, b[1].value) = 2
    /\ GapsEq(result.endpoints, a)

(* ------------------------- claims about _merge ------------------------- *)

\* C24: for a valid Gaps A and the empty Gaps(): A | Gaps() == A,
\* Gaps() | A == A, A & Gaps() == Gaps(), Gaps() & A == Gaps(),
\* A - Gaps() == A, Gaps() - A == Gaps(), A ^ Gaps() == A, Gaps() ^ A == A.
EmptyIdentities ==
    pc = "done" =>
        /\ b = <<>> =>
              /\ result.status = "ok"
              /\ GapsEq(result.endpoints,
                        IF op \in {"or", "sub", "xor"} THEN a ELSE <<>>)
        /\ a = <<>> =>
              /\ result.status = "ok"
              /\ GapsEq(result.endpoints,
                        IF op \in {"or", "xor"} THEN b ELSE <<>>)

EmptyIdentitiesWitness ==
    /\ pc = "done" /\ a = <<>> /\ op = "xor"
    /\ Len(b) = 4 /\ result = Ok(b)

NumLiveValues == 2

\* The operands of the calls whose termination is followed.
LiveGaps ==
    {es \in ValidGaps : \A k \in 1..Len(es) : es[k].value <= 2 * NumLiveValues}

\* Before an operator is called: no operands yet.
InitLive ==
    /\ pc = "start"
    /\ a = <<>>
    /\ b = <<>>
    /\ op = "or"
    /\ result = NoResult
    /\ input = Unbound
    /\ text = Unbound
    /\ other = Unbound
    /\ elem = Unbound
    /\ heap = Unbound
    /\ Idle

\* a <op> b is called: _merge starts with its locals as initialised.
Call ==
    /\ pc = "start"
    /\ a' \in LiveGaps
    /\ b' \in LiveGaps
    /\ op' \in Ops
    /\ pc' = "merge"
    /\ UNCHANGED <<endpoints, i, j, inside_region, scanline,
                   current_a, current_b, at_scanline, right_of_scanline,
                   result, value, found, input, text, other, elem, heap>>

NextLive == Call \/ MergeStep \/ Return

\* A call that has started keeps running: it is a sequential function with
\* nothing to wait for.
SpecLive == InitLive /\ [][NextLive]_vars /\ WF_vars(MergeStep \/ Return)

\* C25: the loop of _merge terminates; every iteration advances i or j by
\* exactly one, both exactly when the next endpoints of a and b have the
\* same value, neither cursor decreases nor passes the end of its list, so
\* there are at most Len(a) + Len(b) iterations.
SinglePass ==
    /\ [][pc = "merge" /\ pc' = "merge" =>
            /\ i' \in {i, i + 1} /\ j' \in {j, j + 1}
            /\ i' + j' > i + j
            /\ i' <= Len(a) /\ j' <= Len(b)
            /\ (i' = i + 1 /\ j' = j + 1)
                  <=> (/\ i < Len(a) /\ j < Len(b)
                       /\ a[i + 1].value = b[j + 1].value)
            /\ i' = i + 1 => scanline' = a[i + 1].value
            /\ j' = j + 1 => scanline' = b[j + 1].value]_vars
    /\ (pc = "merge") ~> (pc = "done" /\ i = Len(a) /\ j = Len(b))

SinglePassWitness ==
    /\ pc = "done" /\ i = 4 /\ j = 2
    /\ \E k \in 1..4 : a[k].value = b[1].value
    /\ \E k \in 1..4 : a[k].value # b[1].value /\ a[k].value # b[2].value

\* C26: for valid a and b the list _merge returns satisfies every invariant
\* of the constructor: the constructor raises nothing and stores exactly the
\* endpoints _merge returned.
MergeOutputValid ==
    pc = "done" => result = Ok(endpoints)

\* C27: in every iteration of _merge on valid a and b, at_scanline is
\* op(scanline in A, scanline in B) and right_of_scanline is op(the points
\* immediately right of scanline are in A, ... in B), also when one operand
\* has two endpoints at the scanline value.
ScanlineFlagsAccurate ==
    (pc = "merge" /\ i + j > 0) =>
        /\ at_scanline = Apply(op, Member(a, scanline), Member(b, scanline))
        /\ right_of_scanline
              = Apply(op, Member(a, scanline + 1), Member(b, scanline + 1))

\* C28: at the end of every iteration of _merge on valid inputs,
\* inside_region is true iff an odd number of endpoints has been emitted,
\* the emitted endpoints alternate left, right starting with a left one, and
\* at the loop exit inside_region is false and the output has even length.
EmissionParity ==
    pc \in {"merge", "done"} =>
        /\ inside_region <=> (Len(endpoints) % 2 = 1)
        /\ \A k \in 1..Len(endpoints) :
              IF k % 2 = 1 THEN is_left(endpoints[k]) ELSE is_right(endpoints[k])
        /\ (pc = "done" \/ (i = Len(a) /\ j = Len(b)))
              => (~inside_region /\ Len(endpoints) % 2 = 0)

EmissionParityWitness ==
    /\ pc = "merge" /\ inside_region /\ Len(endpoints) = 3
    /\ endpoints[2].value = endpoints[3].value
    /\ i + j < Len(a) + Len(b)

\* C29: whenever a | b, a & b, a ^ b or a - b on valid Gaps returns a Gaps
\* instead of raising, that Gaps is valid and contains exactly the values v
\* for which op(v in a, v in b) is true.
NoSilentlyWrongResult ==
    (pc = "done" /\ result.status = "ok") =>
        /\ ValidEndpoints(result.endpoints)
        /\ \A v \in NegInf..PosInf :
              Member(result.endpoints, v) <=> Apply(op, Member(a, v), Member(b, v))

NoSilentlyWrongResultWitness ==
    /\ pc = "done" /\ result.status = "ok" /\ op = "xor"
    /\ Touching(a, b)
    /\ Len(result.endpoints) = 4

\* C30: whenever the constructor returns, the stored endpoints have no
\* descending consecutive pair, every consecutive pair with equal values is
\* [ ] or ) (, and constructing a Gaps from the stored endpoints succeeds
\* and gives an equal Gaps.
WellFormedStored ==
    (pc = "constructed" /\ result.status = "ok") =>
        /\ ~HasDescendingPair(result.endpoints)
        /\ \A k \in 1..(Len(result.endpoints) - 1) :
              result.endpoints[k].value = result.endpoints[k + 1].value
                 => <<result.endpoints[k].boundary, result.endpoints[k + 1].boundary>>
                       \in {<<"[", "]">>, <<")", "(">>}
        /\ GapsInit(result.endpoints).status = "ok"
        /\ GapsEq(GapsInit(result.endpoints).endpoints, result.endpoints)

====
